---- MODULE Spec2Model ----
(***************************************************************************)
(* EEG mental-state tracker: the background stream loop of src/app.py, its *)
(* request handlers, and the pure pipeline stages it drives                *)
(* (EEGSimulator, SignalProcessor, MentalStateClassifier,                  *)
(* RecommendationEngine).                                                  *)
(*                                                                         *)
(* Numbers.  Band values are reals in the code.  A sample's band value is  *)
(* held here as an integer number of tenths (5.0 -> 50, the floor 0.1 ->   *)
(* 1).  A BandPowers record holds integer numerators together with the     *)
(* field "unit": the real value of a band is numerator / unit.  A mean     *)
(* over n samples is therefore (sum of tenths) with unit 10 * n, which is  *)
(* exact.  Arithmetic is exact rational arithmetic; float rounding of      *)
(* np.mean and of the percentage divisions is not modelled.  Confidence    *)
(* literals 0.0, 0.3, 0.5, 0.7, 0.9 are held as tenths 0, 3, 5, 7, 9.      *)
(* Simulator time is held as a number of steps of 1/sampling_rate seconds  *)
(* (1/256 is a power of two, so the float accumulation is exact).          *)
(***************************************************************************)
EXTENDS Integers, Sequences, FiniteSets, Bags, TLC

Min(a, b) == IF a <= b THEN a ELSE b
Max(a, b) == IF a >= b THEN a ELSE b

(***************************************************************************)
(* Bounds of the model (not program constants).                            *)
(***************************************************************************)
\* most calls of stream_samples the loop makes in one run
MaxTicks == 12
\* most ticks that raise inside the try block in one run
MaxFails == 1
\* most external commands (socket events, HTTP requests) in one run
MaxCmds == 2
\* stream_samples calls and reset_time calls on the simulator on its own
MaxStreams == 2
MaxResets == 1
MaxRequests == 1

(***************************************************************************)
(* src/modules/eeg_simulator.py                                            *)
(***************************************************************************)
RELAXED == "relaxed"
FOCUSED == "focused"
STRESSED == "stressed"
SLEEPY == "sleepy"
\* MentalStateMode: the closed enumeration
MentalStateMode == {RELAXED, FOCUSED, STRESSED, SLEEPY}
\* a value that is none of the four members (reaches the else branch)
OtherMode == "other"

\* EEGSimulator(sampling_rate=256)
sampling_rate == 256

\* max(0, x): a floor at zero
Floor0(x) == Max(0, x)

\* max(0.1, x) in tenths
Floor01(x) == Max(1, x)

\* every mode on the flat profile of the else branch
BaseProfile_flat(mode) == <<50, 50, 50, 50, 50>>

\* The per-mode base profile, in tenths, as <<delta, theta, alpha, beta, gamma>>
BaseProfile(mode) ==
    IF mode = RELAXED THEN <<50, 80, 150, 50, 20>>
    ELSE IF mode = FOCUSED THEN <<30, 50, 70, 180, 80>>
    ELSE IF mode = STRESSED THEN <<40, 60, 40, 200, 120>>
    ELSE IF mode = SLEEPY THEN <<120, 100, 60, 30, 10>>
    ELSE <<50, 50, 50, 50, 50>>

\* generate_sample(mode) at simulator time t, with the drawn noise given
\* (np.random.randn() * 0.5, in tenths)
generate_sample(mode, noise, t) ==
    LET b == BaseProfile(mode) IN
    [ timestamp |-> t,
      delta |-> Floor01(b[1] + noise),
      theta |-> Floor01(b[2] + noise),
      alpha |-> Floor01(b[3] + noise),
      beta  |-> Floor01(b[4] + noise),
      gamma |-> Floor01(b[5] + noise) ]

\* range(samples_count + 1): one sample too many per call
samples_count_plus_one(duration_cs) == (sampling_rate * duration_cs) \div 100 + 1

\* samples_count = int(self.sampling_rate * duration_seconds); the duration
\* is given in hundredths of a second (0.25 s -> 25)
samples_count(duration_cs) == (sampling_rate * duration_cs) \div 100

(***************************************************************************)
(* The random source.  The sequence of numpy draws is fixed by the state   *)
(* of the generator when the process starts; a run of the model picks one  *)
(* of a few such sequences at Init and generate_sample consumes it one     *)
(* draw per sample.  Noise(s, n) is the n-th draw (n = 0, 1, ...) of       *)
(* sequence s, times 0.5, in tenths.                                       *)
(***************************************************************************)
NoiseStreams == {"zero", "alternating", "floor"}
\* further sequences, for the simulator and the pipeline on their own: every
\* draw at -3.5 ("low") or +3.5 ("high"), seven standard deviations out, and
\* a sweep from -25.6 to +25.5 in steps of 0.1 ("ramp"), which crosses the
\* floor of every band of every profile
WideNoiseStreams == NoiseStreams \cup {"low", "high", "ramp"}
Noise(s, n) ==
    IF s = "zero" THEN 0
    ELSE IF s = "alternating" THEN (IF n % 2 = 0 THEN 5 ELSE -7)
    ELSE IF s = "low" THEN -35
    ELSE IF s = "high" THEN 35
    ELSE IF s = "ramp" THEN (n % 512) - 256
    ELSE -300

\* list(simulator.stream_samples(mode, duration)): the samples yielded when
\* the simulator time is t0 and the random source s has made d0 draws
stream_samples(mode, duration_cs, s, t0, d0) ==
    [ i \in 1..samples_count(duration_cs) |->
        generate_sample(mode, Noise(s, d0 + i - 1), t0 + i - 1) ]

(***************************************************************************)
(* Lists of samples.  A sample is fixed by the mode, the time and the draw *)
(* it was generated with, and samples are immutable; a list of samples is  *)
(* held as its runs: a run [mode, t0, d0, n] stands for the n samples      *)
(* generated consecutively under mode from time t0 and draw d0 on.         *)
(* Samples(s, runs) is the list itself.                                    *)
(***************************************************************************)
Run(mode, t0, d0, n) == [ mode |-> mode, t0 |-> t0, d0 |-> d0, n |-> n ]

RunSamples(s, r) ==
    [ i \in 1..r.n |-> generate_sample(r.mode, Noise(s, r.d0 + i - 1), r.t0 + i - 1) ]

\* the samples of the first k runs
RECURSIVE SamplesUpTo(_, _, _)
SamplesUpTo(s, runs, k) ==
    IF k = 0 THEN <<>>
    ELSE SamplesUpTo(s, runs, k - 1) \o RunSamples(s, runs[k])

Samples(s, runs) == SamplesUpTo(s, runs, Len(runs))

\* the number of samples in the first k runs
RECURSIVE LenUpTo(_, _)
LenUpTo(runs, k) ==
    IF k = 0 THEN 0 ELSE runs[k].n + LenUpTo(runs, k - 1)

\* len(lst)
ListLen(runs) == LenUpTo(runs, Len(runs))

\* lst[k:] for 0 <= k <= len(lst): the runs from the i-th on, less the first
\* k samples of them
RECURSIVE DropFrom(_, _, _)
DropFrom(runs, i, k) ==
    IF i > Len(runs) THEN <<>>
    ELSE IF k = 0 THEN SubSeq(runs, i, Len(runs))
    ELSE IF runs[i].n <= k THEN DropFrom(runs, i + 1, k - runs[i].n)
    ELSE << Run(runs[i].mode, runs[i].t0 + k, runs[i].d0 + k, runs[i].n - k) >>
         \o SubSeq(runs, i + 1, Len(runs))

DropFirst(runs, k) == DropFrom(runs, 1, k)

\* lst[-n:] for n > 0
LastN(runs, n) == DropFirst(runs, Max(0, ListLen(runs) - n))

(***************************************************************************)
(* src/modules/signal_processor.py                                         *)
(***************************************************************************)
\* the sum of one band over samples[lo..hi] (np.mean's numerator), summed by
\* halves so that the evaluation depth stays logarithmic in the window length
RECURSIVE SumRange(_, _, _, _)
SumRange(samples, band, lo, hi) ==
    IF lo > hi THEN 0
    ELSE IF lo = hi THEN samples[lo][band]
    ELSE LET mid == (lo + hi) \div 2
         IN  SumRange(samples, band, lo, mid) + SumRange(samples, band, mid + 1, hi)

\* sum(s[band] for s in samples[:n]).  A sequence of positive integers is a
\* bag over its index set and its sum is the bag's cardinality; generated
\* samples are all of this kind (the 0.1 floor).  Other lists are summed by
\* SumRange.
SumBand(samples, band, n) ==
    LET column == [ i \in 1..n |-> samples[i][band] ]
    IN  IF \A i \in 1..n : column[i] > 0
        THEN BagCardinality(column)
        ELSE SumRange(samples, band, 1, n)

_empty_result ==
    [ delta_power |-> 0, theta_power |-> 0, alpha_power |-> 0,
      beta_power |-> 0, gamma_power |-> 0, timestamp |-> 0, unit |-> 1 ]

\* the window stamped with the time of its first sample
analyze_eeg_window_first_ts(samples) ==
    IF samples = <<>> THEN _empty_result
    ELSE LET n == Len(samples) IN
         [ delta_power |-> SumBand(samples, "delta", n),
           theta_power |-> SumBand(samples, "theta", n),
           alpha_power |-> SumBand(samples, "alpha", n),
           beta_power  |-> SumBand(samples, "beta", n),
           gamma_power |-> SumBand(samples, "gamma", n),
           timestamp   |-> samples[1].timestamp,
           unit        |-> 10 * n ]

\* analyze_eeg_window(samples): per-band means and the last timestamp
analyze_eeg_window(samples) ==
    IF samples = <<>> THEN _empty_result
    ELSE LET n == Len(samples) IN
         [ delta_power |-> SumBand(samples, "delta", n),
           theta_power |-> SumBand(samples, "theta", n),
           alpha_power |-> SumBand(samples, "alpha", n),
           beta_power  |-> SumBand(samples, "beta", n),
           gamma_power |-> SumBand(samples, "gamma", n),
           timestamp   |-> samples[n].timestamp,
           unit        |-> 10 * n ]

\* calculate_ratios(band_powers).  A power is numerator / unit, so 0.1 is
\* unit / (10 * unit); a ratio is kept as the fraction num / den.
TotalPower(bp) ==
    bp.delta_power + bp.theta_power + bp.alpha_power + bp.beta_power + bp.gamma_power

Fraction(num, den) == [ num |-> num, den |-> den ]

calculate_ratios(bp) ==
    IF TotalPower(bp) = 0
    THEN [ beta_alpha_ratio |-> Fraction(0, 1), theta_beta_ratio |-> Fraction(0, 1) ]
    ELSE LET alpha == Max(10 * bp.alpha_power, bp.unit)
             beta == Max(10 * bp.beta_power, bp.unit)
         IN  [ beta_alpha_ratio |-> Fraction(beta, alpha),
               theta_beta_ratio |-> Fraction(10 * bp.theta_power, beta),
               total_power |-> Fraction(TotalPower(bp), bp.unit) ]

(***************************************************************************)
(* src/modules/mental_state_classifier.py                                  *)
(***************************************************************************)
\* int(min(100, max(0, x))) for x = num / den, den > 0
IntClamp(num, den) ==
    IF num >= 100 * den THEN 100
    ELSE IF num <= 0 THEN 0
    ELSE num \div den

\* int(x) with the final clamp left out (a bug the clamp prevents)
IntNoClamp(num, den) ==
    IF num >= 0 THEN num \div den ELSE -((-num) \div den)

\* _calculate_stress; the percentages are band * 100 / total, so every term
\* is carried times total (tot)
_calculate_stress(beta, alpha, gamma, tot) ==
    LET stress_from_beta  == Min(100 * tot, 300 * beta)
        stress_from_alpha == Max(0, 50 * tot - 200 * alpha)
        stress_from_gamma == Min(30 * tot, 200 * gamma)
    IN  IntClamp(2 * (stress_from_beta + stress_from_alpha + stress_from_gamma),
                 5 * tot)

_calculate_focus_unclamped(beta, gamma, alpha, tot) ==
    LET focus_from_beta ==
            IF 20 * tot <= 100 * beta /\ 100 * beta <= 35 * tot THEN 60 * tot
            ELSE IF 100 * beta > 35 * tot THEN Min(100 * tot, 200 * beta)
            ELSE 200 * beta
        focus_from_gamma == Min(40 * tot, 300 * gamma)
        alpha_penalty2   == Max(0, 100 * alpha - 30 * tot)
    IN  IntNoClamp(2 * focus_from_beta + 2 * focus_from_gamma - alpha_penalty2,
                   2 * tot)

\* _calculate_focus
_calculate_focus(beta, gamma, alpha, tot) ==
    LET focus_from_beta ==
            IF 20 * tot <= 100 * beta /\ 100 * beta <= 35 * tot THEN 60 * tot
            ELSE IF 100 * beta > 35 * tot THEN Min(100 * tot, 200 * beta)
            ELSE 200 * beta
        focus_from_gamma == Min(40 * tot, 300 * gamma)
        \* twice the penalty: (alpha_pct - 30) * 0.5
        alpha_penalty2   == Max(0, 100 * alpha - 30 * tot)
    IN  IntClamp(2 * focus_from_beta + 2 * focus_from_gamma - alpha_penalty2,
                 2 * tot)

\* _calculate_sleepiness
_calculate_sleepiness(delta, theta, beta, tot) ==
    LET sleepy_from_slow2 == 200 * delta + 150 * theta
        beta_penalty      == Max(0, 30 * tot - 100 * beta)
    IN  IntClamp(sleepy_from_slow2 + 2 * beta_penalty, 2 * tot)

_calculate_confidence_shifted(tot, unit) ==
    IF tot >= 30 * unit THEN 9
    ELSE IF tot >= 20 * unit THEN 7
    ELSE IF tot >= 10 * unit THEN 5
    ELSE 3

\* _calculate_confidence (result in tenths)
_calculate_confidence(tot, unit) ==
    IF tot > 30 * unit THEN 9
    ELSE IF tot > 20 * unit THEN 7
    ELSE IF tot > 10 * unit THEN 5
    ELSE 3

MentalState(s, f, sl, c) ==
    [ stress_level |-> s, focus_level |-> f, sleepiness_level |-> sl,
      confidence |-> c ]

\* classify(band_powers)
classify(bp) ==
    LET delta == bp.delta_power
        theta == bp.theta_power
        alpha == bp.alpha_power
        beta  == bp.beta_power
        gamma == bp.gamma_power
        total_power == delta + theta + alpha + beta + gamma
    IN  IF total_power < bp.unit
        THEN MentalState(0, 0, 0, 0)
        ELSE MentalState(_calculate_stress(beta, alpha, gamma, total_power),
                         _calculate_focus(beta, gamma, alpha, total_power),
                         _calculate_sleepiness(delta, theta, beta, total_power),
                         _calculate_confidence(total_power, bp.unit))

(***************************************************************************)
(* src/modules/recommendation_engine.py                                    *)
(* A Recommendation keeps type, frequency_hz (0 for None), duration and    *)
(* priority; "title" is a short key for the fixed title/description text.  *)
(***************************************************************************)
Rec(type, freq, dur, title, prio) ==
    [ type |-> type, frequency_hz |-> freq, duration_minutes |-> dur,
      title |-> title, priority |-> prio ]

_stress_recommendations ==
    << Rec("binaural_beats", 10, 10, "alpha_stress", 1),
       Rec("breathing", 0, 5, "breath_478", 1),
       Rec("meditation", 0, 10, "body_scan", 2) >>

_focus_recommendations ==
    << Rec("binaural_beats", 20, 15, "beta_focus", 1),
       Rec("break", 0, 5, "short_break", 2) >>

_sleepiness_recommendations ==
    << Rec("break", 0, 10, "energy_break", 1),
       Rec("binaural_beats", 15, 10, "alertness", 2),
       Rec("breathing", 0, 3, "bellows_breath", 2) >>

_maintenance_recommendations ==
    << Rec("meditation", 0, 5, "mindfulness", 3) >>

high_stress_threshold == 60
low_focus_threshold == 40
high_sleepiness_threshold == 70

\* insertion before the first element whose key is not smaller: a sort that
\* is not stable
RECURSIVE InsertBeforeEqual(_, _)
InsertBeforeEqual(sorted, r) ==
    IF sorted = <<>> THEN <<r>>
    ELSE IF sorted[Len(sorted)].priority < r.priority THEN Append(sorted, r)
    ELSE Append(InsertBeforeEqual(SubSeq(sorted, 1, Len(sorted) - 1), r),
                sorted[Len(sorted)])

\* list.sort(key=priority): a stable sort, by insertion after the last
\* element whose key is not larger
RECURSIVE InsertByPriority(_, _)
InsertByPriority(sorted, r) ==
    IF sorted = <<>> THEN <<r>>
    ELSE IF sorted[Len(sorted)].priority <= r.priority THEN Append(sorted, r)
    ELSE Append(InsertByPriority(SubSeq(sorted, 1, Len(sorted) - 1), r),
                sorted[Len(sorted)])

RECURSIVE SortByPriority(_)
SortByPriority(recs) ==
    IF recs = <<>> THEN <<>>
    ELSE InsertByPriority(SortByPriority(SubSeq(recs, 1, Len(recs) - 1)),
                          recs[Len(recs)])

\* the rules as an if / elif chain: only the first matching rule contributes
collect_first_match(ms) ==
    IF ms.stress_level > high_stress_threshold THEN _stress_recommendations
    ELSE IF ms.focus_level < low_focus_threshold THEN _focus_recommendations
    ELSE IF ms.sleepiness_level > high_sleepiness_threshold
         THEN _sleepiness_recommendations
    ELSE IF /\ low_focus_threshold <= ms.focus_level
            /\ ms.focus_level <= 70
            /\ ms.stress_level < high_stress_threshold
            /\ ms.sleepiness_level < high_sleepiness_threshold
         THEN _maintenance_recommendations
    ELSE <<>>

\* lines 63-83 of generate: the list collected by the four independent rules,
\* before it is sorted
collect(ms) ==
    LET r1 == IF ms.stress_level > high_stress_threshold
              THEN _stress_recommendations ELSE <<>>
        r2 == IF ms.focus_level < low_focus_threshold
              THEN _focus_recommendations ELSE <<>>
        r3 == IF ms.sleepiness_level > high_sleepiness_threshold
              THEN _sleepiness_recommendations ELSE <<>>
        r4 == IF /\ low_focus_threshold <= ms.focus_level
                 /\ ms.focus_level <= 70
                 /\ ms.stress_level < high_stress_threshold
                 /\ ms.sleepiness_level < high_sleepiness_threshold
              THEN _maintenance_recommendations ELSE <<>>
    IN  r1 \o r2 \o r3 \o r4

\* RecommendationEngine.generate(mental_state)
generate(ms) == SortByPriority(collect(ms))

(***************************************************************************)
(* src/app.py: the module-level state, the background loop and the         *)
(* handlers.                                                               *)
(*                                                                         *)
(* The loop runs in its own thread and the handlers in request threads     *)
(* (async_mode='threading'); nothing in app.py takes a lock.  A step of    *)
(* the model is a stretch of one thread's code that makes at most one      *)
(* access to state another thread can write or read.                       *)
(***************************************************************************)
VARIABLES
    eeg_buffer,     \* app.py:34  list of samples
    session_data,   \* app.py:35  list of data packets
    session_id,     \* which list object the name session_data is bound to
    current_mode,   \* app.py:36
    is_streaming,   \* app.py:37
    sim_time,       \* simulator.time, in steps of 1/sampling_rate
    rng,            \* the random source's sequence (fixed at start)
    rng_draws,      \* draws made from it so far
    pc,             \* where the loop thread is
    tick_mode,      \* loop: current_mode as read for stream_samples (line 60)
    data_packet,    \* loop: the local data_packet (lines 80-100)
    session_ref,    \* loop: the list object loaded for .append (line 106)
    delivered,      \* history: packets handed to socketio.emit, in order
    prev_window,    \* history: the window analysed before the current one
    ticks,          \* history: calls of stream_samples so far
    ticks_since,    \* history: calls of stream_samples since the last trim
    windows_taken,  \* history: trims (line 110) so far
    fails,          \* history: ticks that raised so far
    emits_since_clear, \* history: packets handed to emit since the last clear_session
    raced_clear,    \* history: 1 if the last clear_session ran between an emit
                    \*          and the lookup of session_data for its append
    cmds,           \* history: external commands handled so far
    request,        \* history: the last external command
    reply,          \* history: the event the last command emitted to its caller
    fn_in,          \* the operation looked at on its own: its input and locals
    fn_out,         \* the operation looked at on its own: its result
    observed        \* history: the status values the shared state has held
                    \*          together during the status request in flight

vars == << eeg_buffer, session_data, session_id, current_mode, is_streaming,
           sim_time, rng, rng_draws, pc, tick_mode, data_packet, session_ref,
           delivered, prev_window, ticks, ticks_since, windows_taken, fails,
           emits_since_clear, raced_clear, cmds, request, reply, fn_in, fn_out,
           observed >>

globals == << eeg_buffer, session_data, session_id, current_mode, is_streaming >>
simulator == << sim_time, rng, rng_draws >>
locals == << tick_mode, data_packet, session_ref >>
loop_history == << delivered, prev_window, ticks, ticks_since, windows_taken, fails >>
clear_history == << emits_since_clear, raced_clear >>
cmd_log == << cmds, request, reply >>
cmd_history == << cmds, request, reply, observed >>
fn_vars == << fn_in, fn_out >>

None == "none"

\* a local that holds a record once it is assigned, before its assignment
Unbound == [ unbound |-> TRUE ]

\* the payload of an event that carries no data
NoData == [ nothing |-> None ]

\* the window length the loop tests and slices with (app.py:64, 68)
WindowSize == 512
\* the tail the loop keeps after a window (app.py:110)
HopKeep == 256
\* duration_seconds=0.25 (app.py:60), in hundredths of a second
TickDuration == 25

\* the module-level state of app.py as the import leaves it (lines 27-37),
\* with the loop's locals unbound and the histories empty
AppStart ==
    /\ eeg_buffer = <<>>
    /\ session_data = <<>>
    /\ session_id = 0
    /\ current_mode = RELAXED
    /\ is_streaming = FALSE
    /\ sim_time = 0
    /\ rng_draws = 0
    /\ tick_mode = None
    /\ data_packet = Unbound
    /\ session_ref = -1        \* no list loaded yet (the lists are 0, 1, ...)
    /\ delivered = <<>>
    /\ prev_window = <<>>
    /\ ticks = 0
    /\ ticks_since = 0
    /\ windows_taken = 0
    /\ fails = 0
    /\ emits_since_clear = 0
    /\ raced_clear = 0
    /\ cmds = 0
    /\ request = [ op |-> None, data |-> NoData ]
    /\ reply = None
    /\ observed = {}

(***************************************************************************)
(* What a status request can see.  StatusValues is what api_status reads,  *)
(* taken together in one state.  While a status request is in flight       *)
(* (fn_in.op = "status"; fn_in.step values read so far), observed holds    *)
(* the StatusValues of every state passed since the request began that     *)
(* agree with the values the request has read so far; every action that    *)
(* writes one of the four globals records the state it leads to.           *)
(***************************************************************************)
StatusValues ==
    [ streaming |-> is_streaming, current_mode |-> current_mode,
      buffer_size |-> ListLen(eeg_buffer), session_data_count |-> Len(session_data) ]

StatusInFlight == "op" \in DOMAIN fn_in /\ fn_in.op = "status"

AgreesWithReads(v) ==
    /\ fn_in.step >= 1 => v.streaming = fn_in.streaming
    /\ fn_in.step >= 2 => v.current_mode = fn_in.current_mode
    /\ fn_in.step >= 3 => v.buffer_size = fn_in.buffer_size

Observe ==
    observed' = IF StatusInFlight
                THEN observed \cup { v \in { StatusValues' } : AgreesWithReads(v) }
                ELSE observed

Init ==
    /\ AppStart
    /\ rng \in NoiseStreams
    /\ pc = "check"
    /\ fn_in = Unbound
    /\ fn_out = Unbound

(***************************************************************************)
(* background_eeg_stream (app.py:40-117)                                   *)
(***************************************************************************)
\* lines 54-56: not streaming: sleep and look again
Idle ==
    /\ pc = "check"
    /\ ~is_streaming
    /\ UNCHANGED vars

\* line 54: the streaming check passes and the tick enters the try block
TickStart ==
    /\ pc = "check"
    /\ is_streaming
    /\ ticks < MaxTicks
    /\ pc' = "generate"
    /\ UNCHANGED << globals, simulator, locals, loop_history, clear_history, cmd_history, fn_vars >>

\* is the window ready (line 64)
is_window_ready(buffer) == ListLen(buffer) >= WindowSize

\* lines 60-64 and 113: read current_mode, draw the tick's samples, extend
\* the buffer, test the length; without a full window sleep until the next tick
Generate ==
    /\ pc = "generate"
    /\ LET n == samples_count(TickDuration)
           samples == Run(current_mode, sim_time, rng_draws, n)
       IN  /\ tick_mode' = current_mode
           /\ eeg_buffer' = Append(eeg_buffer, samples)
           /\ sim_time' = sim_time + n
           /\ rng_draws' = rng_draws + n
           /\ pc' = IF is_window_ready(eeg_buffer') THEN "analyse" ELSE "check"
    /\ ticks' = ticks + 1
    /\ ticks_since' = ticks_since + 1
    /\ UNCHANGED << session_data, session_id, current_mode, is_streaming, rng,
                    data_packet, session_ref, delivered, prev_window,
                    windows_taken, fails, clear_history, cmd_log, fn_vars >>
    /\ Observe

\* lines 68-100: slice the window, aggregate, classify, select, and build
\* the packet, which reads current_mode again (line 99).  Each local is bound
\* once, in the order the code assigns it.  (The packet's own 'timestamp',
\* datetime.now(), is wall-clock time and is left out.)
Analyse ==
    /\ pc = "analyse"
    /\ \E window \in { LastN(eeg_buffer, WindowSize) } :
       \E window_samples \in { Samples(rng, window) } :
       \E band_powers \in { analyze_eeg_window(window_samples) } :
       \E mental_state \in { classify(band_powers) } :
       \E recommendations \in { generate(mental_state) } :
          data_packet' = [ band_powers |-> band_powers,
                           mental_state |-> mental_state,
                           recommendations |-> recommendations,
                           current_mode |-> current_mode ]
    /\ prev_window' = LastN(eeg_buffer, WindowSize)
    /\ pc' = "emit"
    /\ UNCHANGED << globals, simulator, tick_mode, session_ref, delivered, ticks,
                    ticks_since, windows_taken, fails, clear_history, cmd_history, fn_vars >>

\* the emission made conditional on the streaming flag
Emit_if_streaming ==
    /\ pc = "emit"
    /\ is_streaming
    /\ delivered' = Append(delivered, data_packet)
    /\ emits_since_clear' = emits_since_clear + 1
    /\ pc' = "append_load"
    /\ UNCHANGED << globals, simulator, locals, prev_window, ticks, ticks_since,
                    windows_taken, fails, raced_clear, cmd_history, fn_vars >>

\* line 103: socketio.emit('eeg_update', data_packet) returns
Emit ==
    /\ pc = "emit"
    /\ delivered' = Append(delivered, data_packet)
    /\ emits_since_clear' = emits_since_clear + 1
    /\ pc' = "append_load"
    /\ UNCHANGED << globals, simulator, locals, prev_window, ticks, ticks_since,
                    windows_taken, fails, raced_clear, cmd_history, fn_vars >>

\* line 106, first half: the name session_data is looked up
AppendLoad ==
    /\ pc = "append_load"
    /\ session_ref' = session_id
    /\ pc' = "append_call"
    /\ UNCHANGED << globals, simulator, tick_mode, data_packet, loop_history,
                    clear_history, cmd_history, fn_vars >>

\* line 106, second half: .append on the list that was looked up; if
\* clear_session has rebound the name since, that list is no longer the
\* session history
AppendCall ==
    /\ pc = "append_call"
    /\ session_data' = IF session_ref = session_id
                       THEN Append(session_data, data_packet)
                       ELSE session_data
    /\ pc' = "trim"
    /\ UNCHANGED << eeg_buffer, session_id, current_mode, is_streaming,
                    simulator, locals, loop_history, clear_history, cmd_log, fn_vars >>
    /\ Observe

\* eeg_buffer[-512:] in place of eeg_buffer[-256:]
Trim_keeps_window ==
    /\ pc = "trim"
    /\ eeg_buffer' = LastN(eeg_buffer, WindowSize)
    /\ windows_taken' = windows_taken + 1
    /\ ticks_since' = 0
    /\ pc' = "check"
    /\ UNCHANGED << session_data, session_id, current_mode, is_streaming,
                    simulator, locals, delivered, prev_window, ticks, fails,
                    clear_history, cmd_log, fn_vars >>
    /\ Observe

\* lines 110-113: keep the tail for the overlap, sleep until the next tick
Trim ==
    /\ pc = "trim"
    /\ eeg_buffer' = LastN(eeg_buffer, HopKeep)
    /\ windows_taken' = windows_taken + 1
    /\ ticks_since' = 0
    /\ pc' = "check"
    /\ UNCHANGED << session_data, session_id, current_mode, is_streaming,
                    simulator, locals, delivered, prev_window, ticks, fails,
                    clear_history, cmd_log, fn_vars >>
    /\ Observe

\* lines 68-100 raise: control goes to the except clause
AnalyseFail ==
    /\ pc = "analyse"
    /\ fails < MaxFails
    /\ fails' = fails + 1
    /\ pc' = "except"
    /\ UNCHANGED << globals, simulator, locals, delivered, prev_window, ticks,
                    ticks_since, windows_taken, clear_history, cmd_history, fn_vars >>

\* line 103 raises: the packet is not delivered
EmitFail ==
    /\ pc = "emit"
    /\ fails < MaxFails
    /\ fails' = fails + 1
    /\ pc' = "except"
    /\ UNCHANGED << globals, simulator, locals, delivered, prev_window, ticks,
                    ticks_since, windows_taken, clear_history, cmd_history, fn_vars >>

\* the except clause leaving the while loop (a break, or a re-raise)
Backoff_leaves_loop ==
    /\ pc = "except"
    /\ pc' = "dead"
    /\ UNCHANGED << globals, simulator, locals, loop_history, clear_history, cmd_history, fn_vars >>

\* lines 115-117: log, sleep(1), and go round the while loop again
Backoff ==
    /\ pc = "except"
    /\ pc' = "check"
    /\ UNCHANGED << globals, simulator, locals, loop_history, clear_history, cmd_history, fn_vars >>

LoopOk == TickStart \/ Generate \/ Analyse \/ Emit \/ AppendLoad \/ AppendCall
          \/ Trim \/ Backoff
LoopFail == AnalyseFail \/ EmitFail
Loop == Idle \/ LoopOk \/ LoopFail

(***************************************************************************)
(* The handlers (app.py:172-177, 221-268)                                  *)
(***************************************************************************)
\* (observed is left to the handler, which records the state it leads to)
Command(op, data, event) ==
    /\ cmds < MaxCmds
    /\ cmds' = cmds + 1
    /\ request' = [ op |-> op, data |-> data ]
    /\ reply' = event

\* handle_start_streaming
handle_start_streaming ==
    /\ is_streaming' = TRUE
    /\ Command("start_streaming", NoData, "streaming_started")
    /\ UNCHANGED << eeg_buffer, session_data, session_id, current_mode,
                    simulator, pc, locals, loop_history, clear_history, fn_vars >>
    /\ Observe

\* a stop that also empties the buffer
handle_stop_streaming_empties_buffer ==
    /\ is_streaming' = FALSE
    /\ eeg_buffer' = <<>>
    /\ Command("stop_streaming", NoData, "streaming_stopped")
    /\ UNCHANGED << session_data, session_id, current_mode,
                    simulator, pc, locals, loop_history, clear_history, fn_vars >>
    /\ Observe

\* handle_stop_streaming
handle_stop_streaming ==
    /\ is_streaming' = FALSE
    /\ Command("stop_streaming", NoData, "streaming_stopped")
    /\ UNCHANGED << eeg_buffer, session_data, session_id, current_mode,
                    simulator, pc, locals, loop_history, clear_history, fn_vars >>
    /\ Observe

\* the payloads a client can send with change_mode: a mode name (valid or
\* not), or a payload without the key "mode"
ModeNames == {"relaxed", "focused", "stressed", "sleepy"}
NoModeKey == [ note |-> "x" ]
Payloads == { [ mode |-> m ] : m \in ModeNames \cup {"invalid"} } \cup { NoModeKey }

\* data.get('mode', 'relaxed')
mode_str(data) == IF "mode" \in DOMAIN data THEN data.mode ELSE "relaxed"

\* mode_map
mode_map == [ m \in ModeNames |->
                IF m = "relaxed" THEN RELAXED
                ELSE IF m = "focused" THEN FOCUSED
                ELSE IF m = "stressed" THEN STRESSED
                ELSE SLEEPY ]

\* an unknown name falling back to the default mode instead of being refused
handle_mode_change_fallback(data) ==
    /\ IF mode_str(data) \in DOMAIN mode_map
       THEN /\ current_mode' = mode_map[mode_str(data)]
            /\ Command("change_mode", data, "mode_changed")
       ELSE /\ current_mode' = RELAXED
            /\ Command("change_mode", data, "mode_changed")
    /\ UNCHANGED << eeg_buffer, session_data, session_id, is_streaming,
                    simulator, pc, locals, loop_history, clear_history, fn_vars >>
    /\ Observe

\* a mode change that relabels the samples already buffered
handle_mode_change_relabels(data) ==
    /\ IF mode_str(data) \in DOMAIN mode_map
       THEN /\ current_mode' = mode_map[mode_str(data)]
            /\ eeg_buffer' = [ i \in DOMAIN eeg_buffer |->
                                 [ eeg_buffer[i] EXCEPT !.mode = mode_map[mode_str(data)] ] ]
            /\ Command("change_mode", data, "mode_changed")
       ELSE /\ current_mode' = current_mode
            /\ eeg_buffer' = eeg_buffer
            /\ Command("change_mode", data, "error")
    /\ UNCHANGED << session_data, session_id, is_streaming,
                    simulator, pc, locals, loop_history, clear_history, fn_vars >>
    /\ Observe

\* handle_mode_change(data)
handle_mode_change(data) ==
    /\ IF mode_str(data) \in DOMAIN mode_map
       THEN /\ current_mode' = mode_map[mode_str(data)]
            /\ Command("change_mode", data, "mode_changed")
       ELSE /\ current_mode' = current_mode
            /\ Command("change_mode", data, "error")
    /\ UNCHANGED << eeg_buffer, session_data, session_id, is_streaming,
                    simulator, pc, locals, loop_history, clear_history, fn_vars >>
    /\ Observe

\* clear_session: session_data is rebound to a new empty list
clear_session ==
    /\ session_data' = <<>>
    /\ session_id' = session_id + 1
    /\ emits_since_clear' = 0
    /\ raced_clear' = IF pc = "append_load" THEN 1 ELSE 0
    /\ Command("clear_session", NoData, "success")
    /\ UNCHANGED << eeg_buffer, current_mode, is_streaming, simulator, pc,
                    locals, loop_history, fn_vars >>
    /\ Observe

Handlers ==
    \/ handle_start_streaming
    \/ handle_stop_streaming
    \/ \E data \in Payloads : handle_mode_change(data)
    \/ clear_session

Next == Loop \/ Handlers

Spec == Init /\ [][Next]_vars

\* The loop thread is scheduled: a step of the loop that does not raise and
\* is possible is eventually taken.  Failures and commands are not forced.
FairSpec == Spec /\ WF_vars(LoopOk)

(***************************************************************************)
(* The classifier on its own: classify applied to one BandPowers input.    *)
(* The band powers are drawn from BandValues (tenths, unit 10): negative,  *)
(* zero, below the low-signal limit, on and around the confidence steps    *)
(* (10.0 + 10.0 = 20.0, ...), and very large.                              *)
(***************************************************************************)
BandValues == { -50, 0, 1, 4, 10, 100, 150, 100000 }
BandInputs ==
    { [ delta_power |-> d, theta_power |-> t, alpha_power |-> a,
        beta_power |-> b, gamma_power |-> g, timestamp |-> 0, unit |-> 10 ] :
      d \in BandValues, t \in BandValues, a \in BandValues,
      b \in BandValues, g \in BandValues }

InitClassify ==
    /\ AppStart
    /\ rng = "zero"
    /\ pc = "classify"
    /\ fn_in \in BandInputs
    /\ fn_out = Unbound

\* mental_state = classifier.classify(band_powers)
Classify ==
    /\ pc = "classify"
    /\ fn_out' = classify(fn_in)
    /\ pc' = "classified"
    /\ UNCHANGED << globals, simulator, locals, loop_history, clear_history,
                    cmd_history, fn_in >>

NextClassify == Classify
SpecClassify == InitClassify /\ [][NextClassify]_vars

(***************************************************************************)
(* The band ratios on their own: calculate_ratios applied to one window    *)
(* result, either one of BandInputs or the result of an empty window.      *)
(***************************************************************************)
InitRatios ==
    /\ AppStart
    /\ rng = "zero"
    /\ pc = "ratios"
    /\ fn_in \in BandInputs \cup { _empty_result }
    /\ fn_out = Unbound

\* ratios = processor.calculate_ratios(result)
Ratios ==
    /\ pc = "ratios"
    /\ fn_out' = calculate_ratios(fn_in)
    /\ pc' = "ratios_done"
    /\ UNCHANGED << globals, simulator, locals, loop_history, clear_history,
                    cmd_history, fn_in >>

NextRatios == Ratios
SpecRatios == InitRatios /\ [][NextRatios]_vars

(***************************************************************************)
(* The recommendation engine on its own: generate applied to one           *)
(* MentalState.  The levels are drawn from LevelValues: the ends of the    *)
(* scale and each threshold (40, 60, 70) with its two neighbours.          *)
(***************************************************************************)
LevelValues == { 0, 39, 40, 41, 59, 60, 61, 69, 70, 71, 100 }
StateInputs ==
    { MentalState(s, f, sl, 9) :
        s \in LevelValues, f \in LevelValues, sl \in LevelValues }

InitSelect ==
    /\ AppStart
    /\ rng = "zero"
    /\ pc = "select"
    /\ fn_in \in StateInputs
    /\ fn_out = Unbound

\* recommendations = engine.generate(mental_state)
Select ==
    /\ pc = "select"
    /\ fn_out' = [ recommendations |-> generate(fn_in) ]
    /\ pc' = "selected"
    /\ UNCHANGED << globals, simulator, locals, loop_history, clear_history,
                    cmd_history, fn_in >>

NextSelect == Select
SpecSelect == InitSelect /\ [][NextSelect]_vars

(***************************************************************************)
(* The pipeline on its own, one stage per step: a list of samples is drawn *)
(* from the simulator (any mode, the unrecognized one included; a stream   *)
(* of 0 s, 0.25 s or 2 s; any of the noise sequences; the time counter at  *)
(* 0 or further on), aggregated, classified, and recommendations selected. *)
(***************************************************************************)
AllModes == MentalStateMode \cup {OtherMode}
Durations == {0, 25, 200}
StartTimes == {0, 7}
PipelineInputs ==
    { [ mode |-> m, duration_cs |-> d, noise |-> s, t0 |-> t ] :
        m \in AllModes, d \in Durations, s \in WideNoiseStreams, t \in StartTimes }

InitPipeline ==
    /\ AppStart
    /\ fn_in \in PipelineInputs
    /\ rng = fn_in.noise
    /\ pc = "p_generate"
    /\ fn_out = Unbound

PipelineFrame ==
    UNCHANGED << globals, simulator, locals, loop_history, clear_history,
                 cmd_history, fn_in >>

\* samples = list(simulator.stream_samples(mode, duration))
PGenerate ==
    /\ pc = "p_generate"
    /\ fn_out' = [ samples |-> stream_samples(fn_in.mode, fn_in.duration_cs, rng,
                                              fn_in.t0, 0) ]
    /\ pc' = "p_aggregate"
    /\ PipelineFrame

\* band_powers = processor.analyze_eeg_window(samples)
PAggregate ==
    /\ pc = "p_aggregate"
    /\ fn_out' = [ samples |-> fn_out.samples,
                   band_powers |-> analyze_eeg_window(fn_out.samples) ]
    /\ pc' = "p_classify"
    /\ PipelineFrame

\* mental_state = classifier.classify(band_powers)
PClassify ==
    /\ pc = "p_classify"
    /\ fn_out' = [ samples |-> fn_out.samples,
                   band_powers |-> fn_out.band_powers,
                   mental_state |-> classify(fn_out.band_powers) ]
    /\ pc' = "p_select"
    /\ PipelineFrame

\* recommendations = engine.generate(mental_state)
PSelect ==
    /\ pc = "p_select"
    /\ fn_out' = [ samples |-> fn_out.samples,
                   band_powers |-> fn_out.band_powers,
                   mental_state |-> fn_out.mental_state,
                   recommendations |-> generate(fn_out.mental_state) ]
    /\ pc' = "p_done"
    /\ PipelineFrame

NextPipeline == PGenerate \/ PAggregate \/ PClassify \/ PSelect
SpecPipeline == InitPipeline /\ [][NextPipeline]_vars

(***************************************************************************)
(* The simulator on its own, its stream consumed one sample at a time.     *)
(* stream_samples is a Python generator: its body runs up to the next      *)
(* yield each time the consumer asks for a sample, so the statement after  *)
(* the yield, self.time += 1.0 / self.sampling_rate, runs when the NEXT    *)
(* sample is asked for, and never runs if the generator is closed or       *)
(* dropped while it is suspended at the yield.                             *)
(*   fn_in:  the generator: its arguments, the time counter when it was    *)
(*           created, the number of samples it has yielded, and whether    *)
(*           reset_time was called during its life                         *)
(*   fn_out: the samples obtained since the last reset_time, the last      *)
(*           stream that ended and how, and the calls made so far          *)
(***************************************************************************)
StreamDurations == {0, 1, 2}

NoStream == [ mode |-> None, duration_cs |-> 0, t_start |-> 0, yielded |-> 0,
              was_reset |-> FALSE ]

InitStream ==
    /\ AppStart
    /\ rng = "alternating"
    /\ pc = "s_idle"
    /\ fn_in = NoStream
    /\ fn_out = [ taken |-> <<>>, ended |-> None, last |-> NoStream,
                  opened |-> 0, resets |-> 0 ]

StreamFrame ==
    UNCHANGED << globals, rng, locals, loop_history, clear_history, cmd_history >>

\* g = simulator.stream_samples(mode, duration): nothing of the body runs yet
StreamOpen(mode, duration_cs) ==
    /\ pc = "s_idle"
    /\ fn_out.opened < MaxStreams
    /\ fn_in' = [ mode |-> mode, duration_cs |-> duration_cs,
                  t_start |-> sim_time, yielded |-> 0, was_reset |-> FALSE ]
    /\ fn_out' = [ fn_out EXCEPT !.opened = @ + 1 ]
    /\ pc' = "s_created"
    /\ UNCHANGED << sim_time, rng_draws >>
    /\ StreamFrame

\* the time counter as the generator leaves it on being resumed: the
\* increment of line 139 runs if the generator was suspended at the yield
TimeOnResume == IF pc = "s_suspended" THEN sim_time + 1 ELSE sim_time

\* next(g) that returns a sample: resume, then yield generate_sample(mode)
StreamNext ==
    /\ pc \in {"s_created", "s_suspended"}
    /\ fn_in.yielded < samples_count(fn_in.duration_cs)
    /\ sim_time' = TimeOnResume
    /\ rng_draws' = rng_draws + 1
    /\ fn_out' = [ fn_out EXCEPT !.taken =
                       Append(@, generate_sample(fn_in.mode, Noise(rng, rng_draws),
                                                 TimeOnResume)) ]
    /\ fn_in' = [ fn_in EXCEPT !.yielded = @ + 1 ]
    /\ pc' = "s_suspended"
    /\ StreamFrame

\* next(g) that ends the iteration: resume, the range is exhausted
StreamExhaust ==
    /\ pc \in {"s_created", "s_suspended"}
    /\ fn_in.yielded = samples_count(fn_in.duration_cs)
    /\ sim_time' = TimeOnResume
    /\ fn_out' = [ fn_out EXCEPT !.ended = "exhausted", !.last = fn_in ]
    /\ fn_in' = NoStream
    /\ pc' = "s_idle"
    /\ UNCHANGED rng_draws
    /\ StreamFrame

\* the consumer stops part-way: g.close(), or g is dropped and collected;
\* the body does not run on
StreamAbandon ==
    /\ pc \in {"s_created", "s_suspended"}
    /\ fn_out' = [ fn_out EXCEPT !.ended = "abandoned", !.last = fn_in ]
    /\ fn_in' = NoStream
    /\ pc' = "s_idle"
    /\ UNCHANGED << sim_time, rng_draws >>
    /\ StreamFrame

\* reset_time()
reset_time ==
    /\ fn_out.resets < MaxResets
    /\ sim_time' = 0
    /\ fn_in' = IF pc = "s_idle" THEN fn_in ELSE [ fn_in EXCEPT !.was_reset = TRUE ]
    /\ fn_out' = [ fn_out EXCEPT !.taken = <<>>, !.resets = @ + 1 ]
    /\ UNCHANGED << pc, rng_draws >>
    /\ StreamFrame

NextStream ==
    \/ \E d \in StreamDurations : StreamOpen(RELAXED, d)
    \/ StreamNext
    \/ StreamExhaust
    \/ StreamAbandon
    \/ reset_time
SpecStream == InitStream /\ [][NextStream]_vars

(***************************************************************************)
(* The HTTP requests beside the stream loop and the socket handlers.       *)
(* The server runs in threading mode (app.py:25), so a request runs in a   *)
(* thread of its own and the loop and the handlers can run between any two *)
(* of its reads of the globals.  fn_in holds the request in flight: which  *)
(* one, how far it is, and the values it has read; fn_out holds the number *)
(* of requests answered and the last response.                             *)
(***************************************************************************)
NoRequest == [ op |-> None, step |-> 0 ]
NoResponse == [ status |-> None ]

InitRequests ==
    /\ AppStart
    /\ rng = "zero"
    /\ pc = "check"
    /\ fn_in = NoRequest
    /\ fn_out = [ served |-> 0, of |-> None, response |-> NoResponse ]

RequestFrame ==
    UNCHANGED << globals, simulator, pc, locals, loop_history, clear_history, cmd_log >>

Respond(response) ==
    /\ fn_out' = [ served |-> fn_out.served + 1, of |-> fn_in.op, response |-> response ]
    /\ fn_in' = NoRequest

\* ---- api_status (app.py:128-137): the dict display reads the four globals
\* in the order written
\* line 133: is_streaming
StatusReadStreaming ==
    /\ fn_in = NoRequest
    /\ fn_out.served < MaxRequests
    /\ fn_in' = [ op |-> "status", step |-> 1, streaming |-> is_streaming,
                  current_mode |-> None, buffer_size |-> 0 ]
    /\ observed' = { StatusValues }
    /\ UNCHANGED fn_out
    /\ RequestFrame

\* line 134: current_mode.value
StatusReadMode ==
    /\ fn_in.op = "status" /\ fn_in.step = 1
    /\ fn_in' = [ fn_in EXCEPT !.step = 2, !.current_mode = current_mode ]
    /\ observed' = { v \in observed : v.current_mode = current_mode }
    /\ UNCHANGED fn_out
    /\ RequestFrame

\* line 135: len(eeg_buffer)
StatusReadBuffer ==
    /\ fn_in.op = "status" /\ fn_in.step = 2
    /\ fn_in' = [ fn_in EXCEPT !.step = 3, !.buffer_size = ListLen(eeg_buffer) ]
    /\ observed' = { v \in observed : v.buffer_size = ListLen(eeg_buffer) }
    /\ UNCHANGED fn_out
    /\ RequestFrame

\* line 136: len(session_data), and the response
StatusRespond ==
    /\ fn_in.op = "status" /\ fn_in.step = 3
    /\ Respond([ status |-> "online", streaming |-> fn_in.streaming,
                 current_mode |-> fn_in.current_mode,
                 buffer_size |-> fn_in.buffer_size,
                 session_data_count |-> Len(session_data) ])
    /\ observed' = { v \in observed : v.session_data_count = Len(session_data) }
    /\ RequestFrame

api_status == StatusReadStreaming \/ StatusReadMode \/ StatusReadBuffer \/ StatusRespond

\* ---- session_stats (app.py:180-199)
\* round(sum / n, 1), in tenths: Python rounds the half to the even digit
RoundTenths(sum, n) ==
    LET q == (10 * sum) \div n
        r == (10 * sum) % n
    IN  IF 2 * r < n THEN q
        ELSE IF 2 * r > n THEN q + 1
        ELSE IF q % 2 = 0 THEN q ELSE q + 1

\* the packet's 'stress', 'focus' and 'sleepiness' (app.py:87-91) are the
\* levels of the mental state the packet carries
Fields == << "stress_level", "focus_level", "sleepiness_level" >>

RECURSIVE SumField(_, _, _)
SumField(history, field, n) ==
    IF n = 0 THEN 0
    ELSE SumField(history, field, n - 1) + history[n].mental_state[field]

\* lines 182-183: the history is empty: the "empty" response
StatsEmpty ==
    /\ fn_in = NoRequest
    /\ fn_out.served < MaxRequests
    /\ session_data = <<>>
    /\ fn_out' = [ served |-> fn_out.served + 1, of |-> "stats",
                   response |-> [ status |-> "empty" ] ]
    /\ UNCHANGED << fn_in, observed >>
    /\ RequestFrame

\* line 182: the history is not empty: go on to the averages
StatsCheck ==
    /\ fn_in = NoRequest
    /\ fn_out.served < MaxRequests
    /\ session_data # <<>>
    /\ fn_in' = [ op |-> "stats", step |-> 1, sum |-> 0, averages |-> <<>>,
                  total_data_points |-> 0 ]
    /\ UNCHANGED << fn_out, observed >>
    /\ RequestFrame

\* lines 184-186, left operand: sum(... for d in session_data)
StatsSum ==
    /\ fn_in.op = "stats" /\ fn_in.step \in {1, 3, 5}
    /\ fn_in' = [ fn_in EXCEPT !.step = @ + 1,
                      !.sum = SumField(session_data, Fields[(fn_in.step + 1) \div 2],
                                       Len(session_data)) ]
    /\ UNCHANGED << fn_out, observed >>
    /\ RequestFrame

\* lines 184-186, right operand and the division: / len(session_data)
StatsDivide ==
    /\ fn_in.op = "stats" /\ fn_in.step \in {2, 4, 6}
    /\ Len(session_data) > 0
    /\ fn_in' = [ fn_in EXCEPT !.step = @ + 1,
                      !.averages = Append(@, [ sum |-> fn_in.sum,
                                               n |-> Len(session_data) ]) ]
    /\ UNCHANGED << fn_out, observed >>
    /\ RequestFrame

\* lines 184-186: len(session_data) is 0: ZeroDivisionError, which no
\* handler catches: the server answers 500
StatsDivideByZero ==
    /\ fn_in.op = "stats" /\ fn_in.step \in {2, 4, 6}
    /\ Len(session_data) = 0
    /\ Respond([ status |-> "internal_server_error" ])
    /\ UNCHANGED observed
    /\ RequestFrame

\* line 189: 'total_data_points': len(session_data)
StatsCount ==
    /\ fn_in.op = "stats" /\ fn_in.step = 7
    /\ fn_in' = [ fn_in EXCEPT !.step = 8, !.total_data_points = Len(session_data) ]
    /\ UNCHANGED << fn_out, observed >>
    /\ RequestFrame

\* lines 190-195: 'duration_seconds': len(session_data) * 2, the rounded
\* averages (in tenths), and the response
StatsRespond ==
    /\ fn_in.op = "stats" /\ fn_in.step = 8
    /\ Respond([ status |-> "summary",
                 total_data_points |-> fn_in.total_data_points,
                 duration_seconds |-> Len(session_data) * 2,
                 averages |-> [ i \in 1..3 |->
                     RoundTenths(fn_in.averages[i].sum, fn_in.averages[i].n) ] ])
    /\ UNCHANGED observed
    /\ RequestFrame

session_stats ==
    \/ StatsEmpty
    \/ StatsCheck
    \/ StatsSum
    \/ StatsDivide
    \/ StatsDivideByZero
    \/ StatsCount
    \/ StatsRespond

\* ---- save_session (app.py:140-169)
\* an export that empties the history it has written
SaveWrite_clears ==
    /\ fn_in = NoRequest
    /\ fn_out.served < MaxRequests
    /\ fn_in' = [ op |-> "save", step |-> 1 ]
    /\ session_data' = <<>>
    /\ UNCHANGED << fn_out, observed >>
    /\ UNCHANGED << eeg_buffer, session_id, current_mode, is_streaming, simulator,
                    pc, locals, loop_history, clear_history, cmd_log >>

\* lines 148-156: makedirs, open and json.dump went through
SaveWrite ==
    /\ fn_in = NoRequest
    /\ fn_out.served < MaxRequests
    /\ fn_in' = [ op |-> "save", step |-> 1 ]
    /\ UNCHANGED << fn_out, observed >>
    /\ RequestFrame

\* lines 148-156 raise (the directory or the file cannot be written);
\* lines 164-168: the error response with the message
SaveFail ==
    /\ fn_in = NoRequest
    /\ fn_out.served < MaxRequests
    /\ fn_out' = [ served |-> fn_out.served + 1, of |-> "save",
                   response |-> [ status |-> "error", message |-> "OSError" ] ]
    /\ UNCHANGED << fn_in, observed >>
    /\ RequestFrame

\* lines 158-162: the success response, 'data_points': len(session_data)
SaveRespond ==
    /\ fn_in.op = "save" /\ fn_in.step = 1
    /\ Respond([ status |-> "success", filename |-> "session.json",
                 data_points |-> Len(session_data) ])
    /\ UNCHANGED observed
    /\ RequestFrame

save_session == SaveWrite \/ SaveFail \/ SaveRespond

NextRequests == Loop \/ Handlers \/ api_status \/ session_stats \/ save_session
SpecRequests == InitRequests /\ [][NextRequests]_vars

(***************************************************************************)
(* Properties of the stream loop and the handlers                          *)
(***************************************************************************)
\* the loop is inside a tick (past the streaming check of line 54)
InTick == pc \in {"generate", "analyse", "emit", "append_load", "append_call", "trim"}
\* the loop is handling a ready window (lines 65-110)
InWindow == pc \in {"analyse", "emit", "append_load", "append_call", "trim"}

\* C1: every time a window has been analysed and the buffer trimmed (the step
\* of line 110), the buffer holds exactly 256 samples and the window-ready
\* test (length >= 512) is false, whatever ticks, failures and commands
\* came before.
C1_TrimLeavesHop ==
    [][ (pc = "trim" /\ pc' = "check")
          => (ListLen(eeg_buffer') = 256 /\ ~(ListLen(eeg_buffer') >= 512)) ]_vars

\* C1 witness: the loop is back at the top right after the trim of its second
\* window.
C1_Witness ==
    pc = "check" /\ windows_taken = 2 /\ ticks_since = 0 /\ ListLen(eeg_buffer) = 256

\* the later window (being analysed in this step) against the window
\* analysed before it: the first 256 samples of the later are the last 256
\* of the earlier, and its other 256 samples are the next 256 samples the
\* simulator generated after the earlier window's last one
Overlap256(earlier, later) ==
    /\ Len(earlier) = 512 /\ Len(later) = 512
    /\ SubSeq(later, 1, 256) = SubSeq(earlier, 257, 512)
    /\ \A i \in 257..512 : later[i].timestamp = earlier[512].timestamp + (i - 256)

AnalyseStep == pc = "analyse" /\ pc' = "emit"

\* the window just analysed overlaps the one analysed before it
OverlapsPrevious ==
    \A earlier \in { Samples(rng, prev_window) } :
    \A later \in { Samples(rng, prev_window') } : Overlap256(earlier, later)

\* C2: any two consecutive windows analysed by the loop overlap by exactly
\* 256 samples: the first 256 samples of the later window are the last 256 of
\* the earlier one, and its other 256 samples are the next ones generated.
C2_ConsecutiveWindowsOverlap ==
    [][ (AnalyseStep /\ prev_window # <<>>) => OverlapsPrevious ]_vars

\* What the loop does keep: the overlap is exactly 256 samples whenever the
\* later window is analysed from a buffer of exactly 512 samples, and the
\* buffer does hold exactly 512 samples at every analysis as long as no tick
\* has raised.
OverlapWhenBufferIsOneWindow ==
    [][ AnalyseStep =>
          /\ (fails = 0 => ListLen(eeg_buffer) = 512)
          /\ (prev_window # <<>> /\ ListLen(eeg_buffer) = 512) => OverlapsPrevious ]_vars

\* C3: every stream_samples call of the loop adds exactly 64 samples; the
\* buffer therefore holds 64 samples per tick since the last trim, on top of
\* the 256 kept by that trim (nothing before the first window); the window is
\* ready exactly from the 8th tick on before the first window is taken and
\* from the 4th tick on after a taken window, and the loop analyses and emits
\* only when it is ready.
TicksToReady == IF windows_taken = 0 THEN 8 ELSE 4
C3_CadenceOfWindows ==
    /\ ListLen(eeg_buffer) = (IF windows_taken = 0 THEN 0 ELSE 256) + 64 * ticks_since
    /\ (ListLen(eeg_buffer) >= 512) <=> (ticks_since >= TicksToReady)
    /\ InWindow => ticks_since >= TicksToReady
    /\ (ticks_since > TicksToReady) => fails > 0
    /\ (ticks_since = TicksToReady /\ fails = 0) => InWindow

\* C3 witness: the second window has become ready, on the 4th tick after the
\* first one was taken.
C3_Witness ==
    pc = "analyse" /\ windows_taken = 1 /\ ticks_since = 4 /\ ticks = 12

IsSuffix(short, long) ==
    /\ Len(short) <= Len(long)
    /\ short = SubSeq(long, Len(long) - Len(short) + 1, Len(long))

\* the loop has handed a packet to emit and not yet appended it to the list
\* the name session_data is bound to
AppendPending ==
    pc = "append_load" \/ (pc = "append_call" /\ session_ref = session_id)
Pending == IF AppendPending THEN 1 ELSE 0

\* C4: (outside the two steps of the append itself) the session history is
\* as long as the number of packets handed to delivery since the last
\* clear-session.
C4_HistoryLengthIsDeliveries ==
    pc \notin {"append_load", "append_call"} => Len(session_data) = emits_since_clear

\* What the loop does keep: each taken window has handed exactly one packet
\* to delivery; the history is a suffix of the delivery sequence (so in delivery order,
\* without gaps), up to the packet whose append is pending; its length is the
\* number of packets delivered since the last clear-session, plus one if that
\* clear-session ran between a packet's delivery and its append.
HistoryFollowsDelivery ==
    /\ Len(delivered) = windows_taken
                        + (IF pc \in {"append_load", "append_call", "trim"} THEN 1 ELSE 0)
    /\ IsSuffix(session_data,
                IF pc \in {"append_load", "append_call"}
                THEN SubSeq(delivered, 1, Len(delivered) - 1) ELSE delivered)
    /\ Len(session_data) = emits_since_clear + raced_clear - Pending

\* C5: a change_mode command that names a mode outside the four valid names
\* is answered with the error event and leaves the active mode and the
\* streaming flag as they were.
C5_InvalidModeRejected ==
    [][ ( /\ cmds' # cmds
          /\ request'.op = "change_mode"
          /\ "mode" \in DOMAIN request'.data
          /\ request'.data.mode \notin {"relaxed", "focused", "stressed", "sleepy"} )
          => ( /\ reply' = "error"
               /\ current_mode' = current_mode
               /\ is_streaming' = is_streaming ) ]_vars

\* C5 witness: an invalid name has been refused while the active mode was not
\* the initial one.
C5_Witness ==
    /\ request.op = "change_mode"
    /\ request.data = [ mode |-> "invalid" ]
    /\ reply = "error"
    /\ current_mode = STRESSED

\* C6: the mode tagged on a packet is the mode the tick's samples were
\* generated under (the loop sees one value of current_mode per tick).
C6_PacketModeIsTickMode ==
    InWindow /\ pc # "analyse" => data_packet.current_mode = tick_mode

\* C7: a tick that has passed the streaming check runs on whatever the flag
\* becomes (its next step is always possible), and while the loop is at the
\* check with the flag off nothing is generated, buffered or delivered: the
\* loop stays at the check until a start command.
C7_TickRunsOn == InTick => ENABLED LoopOk
C7_StoppedIsIdle ==
    (pc = "check" /\ ~is_streaming)
        => ( /\ pc' = "check"
             /\ sim_time' = sim_time
             /\ rng_draws' = rng_draws
             /\ eeg_buffer' = eeg_buffer
             /\ delivered' = delivered
             /\ session_data' # session_data => session_data' = <<>> )
C7_StopOnlyStopsLaterTicks == []C7_TickRunsOn /\ [][C7_StoppedIsIdle]_vars

\* C7 witness: the flag was turned off while a tick was in flight with a
\* ready window not yet emitted.
C7_Witness ==
    pc = "emit" /\ ~is_streaming /\ delivered = <<>> /\ request.op = "stop_streaming"

\* C8: an error in a tick does not end the loop.  The errors are raised at
\* the analysis steps (lines 68-100) and at delivery (line 103), all inside
\* the try block that also holds generation.  After each of the finitely
\* many failures the loop backs off and returns to the streaming check, and
\* unless streaming is turned off (or the run reaches its last tick) a later
\* tick analyses a window and emits its packet.
TickBudgetSpent == ticks = MaxTicks /\ pc = "check"
EmittedNormally == pc = "append_load"
C8_LoopSurvivesErrors ==
    /\ (pc = "except") ~> (pc = "check")
    /\ \A k \in 1..MaxFails :
          (pc = "except" /\ fails = k)
             ~> (EmittedNormally \/ ~is_streaming \/ fails > k \/ TickBudgetSpent)

\* C8 witness: the 8th tick failed with the first window ready and not taken,
\* and the 9th tick has analysed a window and emitted its packet.
C8_Witness ==
    /\ fails = 1 /\ is_streaming
    /\ EmittedNormally /\ ticks = 9 /\ windows_taken = 0 /\ Len(delivered) = 1

\* the sum of the five band powers of the classifier's input
InputTotal ==
    fn_in.delta_power + fn_in.theta_power + fn_in.alpha_power
        + fn_in.beta_power + fn_in.gamma_power

\* C9: for every input, zero, negative and very large band powers included,
\* classify returns three integer levels in 0..100 and a confidence that is
\* one of 0.0, 0.3, 0.5, 0.7, 0.9.
C9_LevelsAndConfidenceInRange ==
    pc = "classified" =>
        /\ fn_out.stress_level \in 0..100
        /\ fn_out.focus_level \in 0..100
        /\ fn_out.sleepiness_level \in 0..100
        /\ fn_out.confidence \in {0, 3, 5, 7, 9}

\* C9 witness: an input with a negative band power has been classified; the
\* stress and focus levels sit on the upper clamp (their raw values exceed
\* 100) and the sleepiness level on the lower one.
C9_Witness ==
    /\ pc = "classified"
    /\ fn_in.alpha_power < 0 /\ fn_in.beta_power = 100
    /\ fn_out.stress_level = 100 /\ fn_out.focus_level = 100
    /\ fn_out.sleepiness_level = 0

\* C10: an input whose band powers sum to less than 1.0 is classified as
\* MentalState(0, 0, 0, 0.0) exactly; any other input gets confidence 0.9
\* for a total above 30, 0.7 above 20, 0.5 above 10 and 0.3 otherwise; so
\* confidence 0.0 occurs only in the low-signal case.
C10_LowSignalAndConfidenceSteps ==
    pc = "classified" =>
        /\ InputTotal < 10 =>
              /\ fn_out.stress_level = 0 /\ fn_out.focus_level = 0
              /\ fn_out.sleepiness_level = 0 /\ fn_out.confidence = 0
        /\ (InputTotal >= 10 /\ InputTotal > 300) => fn_out.confidence = 9
        /\ (InputTotal >= 10 /\ InputTotal > 200 /\ InputTotal <= 300) => fn_out.confidence = 7
        /\ (InputTotal >= 10 /\ InputTotal > 100 /\ InputTotal <= 200) => fn_out.confidence = 5
        /\ (InputTotal >= 10 /\ InputTotal <= 100) => fn_out.confidence = 3
        /\ fn_out.confidence = 0 => InputTotal < 10

\* C10 witness: a total of exactly 20.0 (two bands of 10.0) has been
\* classified with confidence 0.5, the step below the one that starts
\* strictly above 20.
C10_Witness ==
    /\ pc = "classified"
    /\ InputTotal = 200 /\ fn_in.alpha_power = 100 /\ fn_in.beta_power = 100
    /\ fn_out.confidence = 5

\* is every element of the catalog list in the output / none of them
HasAll(catalog, out) == \A i \in 1..Len(catalog) : \E j \in 1..Len(out) : out[j] = catalog[i]
HasNone(catalog, out) == \A i \in 1..Len(catalog) : \A j \in 1..Len(out) : out[j] # catalog[i]

\* C11: for every MentalState with focus in [40,70], stress <= 60 and
\* sleepiness <= 70 (all bounds inclusive), the output is exactly the one
\* priority-3 maintenance recommendation.
C11_SteadyStateGetsMaintenance ==
    ( /\ pc = "selected"
      /\ 40 <= fn_in.focus_level /\ fn_in.focus_level <= 70
      /\ fn_in.stress_level <= 60
      /\ fn_in.sleepiness_level <= 70 )
        => /\ Len(fn_out.recommendations) = 1
           /\ fn_out.recommendations[1].priority = 3
           /\ fn_out.recommendations[1].type = "meditation"

\* C12: the stress, focus and sleepiness rules trigger independently and
\* add up: the output holds the 3 stress items iff stress > 60, the 2 focus
\* items iff focus < 40, the 3 sleepiness items iff sleepiness > 70, and
\* nothing else but possibly the maintenance item, which appears only when
\* none of the three sets does; when no rule matches and the state is not a
\* steady state (focus in [40,70], stress <= 60, sleepiness <= 70) the output
\* is empty.
C12_RulesAreIndependentAndAdditive ==
    pc = "selected" =>
      LET out   == fn_out.recommendations
          s     == fn_in.stress_level > 60
          f     == fn_in.focus_level < 40
          sl    == fn_in.sleepiness_level > 70
          maint == HasAll(_maintenance_recommendations, out)
          steady == /\ 40 <= fn_in.focus_level /\ fn_in.focus_level <= 70
                    /\ fn_in.stress_level <= 60 /\ fn_in.sleepiness_level <= 70
      IN  /\ IF s THEN HasAll(_stress_recommendations, out)
               ELSE HasNone(_stress_recommendations, out)
          /\ IF f THEN HasAll(_focus_recommendations, out)
               ELSE HasNone(_focus_recommendations, out)
          /\ IF sl THEN HasAll(_sleepiness_recommendations, out)
               ELSE HasNone(_sleepiness_recommendations, out)
          /\ Len(out) = (IF s THEN 3 ELSE 0) + (IF f THEN 2 ELSE 0)
                          + (IF sl THEN 3 ELSE 0) + (IF maint THEN 1 ELSE 0)
          /\ maint => ~s /\ ~f /\ ~sl
          /\ (~s /\ ~f /\ ~sl /\ ~steady) => out = <<>>

\* C12 witness: all three rules have triggered at once and the output holds
\* the eight items of the three sets.
C12_Witness ==
    /\ pc = "selected"
    /\ fn_in.stress_level = 61 /\ fn_in.focus_level = 39 /\ fn_in.sleepiness_level = 71
    /\ Len(fn_out.recommendations) = 8

\* the position of a recommendation in the list collect built
PosInCollected(r) ==
    CHOOSE i \in 1..Len(collect(fn_in)) : collect(fn_in)[i] = r

\* C13: the output is the collected list reordered so that priorities never
\* decrease, and two recommendations of equal priority stay in the order
\* they were collected in (stress, focus, sleepiness rule; catalog order
\* within a rule).
C13_SortedAndStable ==
    pc = "selected" =>
      LET out == fn_out.recommendations IN
      /\ Len(out) = Len(collect(fn_in))
      /\ HasAll(collect(fn_in), out)
      /\ \A i \in 1..Len(out) : \A j \in 1..Len(out) :
            i < j => /\ out[i].priority <= out[j].priority
                     /\ out[i].priority = out[j].priority
                          => PosInCollected(out[i]) < PosInCollected(out[j])

\* C13 witness: the stress and the sleepiness rule have both triggered, so
\* the sort has moved the sleepiness set's priority-1 item ahead of the
\* stress set's priority-2 item and behind its two priority-1 items.
C13_Witness ==
    /\ pc = "selected"
    /\ fn_in.stress_level = 100 /\ fn_in.focus_level = 40 /\ fn_in.sleepiness_level = 100
    /\ Len(fn_out.recommendations) = 6
    /\ fn_out.recommendations[3] = _sleepiness_recommendations[1]
    /\ fn_out.recommendations[4] = _stress_recommendations[3]

\* the pipeline has run on a full 2 s window generated under STRESSED
StressedWindowDone ==
    pc = "p_done" /\ fn_in.mode = STRESSED /\ fn_in.duration_cs = 200

\* the aggregate of a 2 s window generated under RELAXED from noise
\* sequence s, the time counter starting where the stressed window's did
RelaxedPowers(s) ==
    analyze_eeg_window(stream_samples(RELAXED, 200, s, fn_in.t0, 0))

\* what C14 states of the stressed window, against the relaxed window of
\* noise sequence s
StressedScenario(s) ==
    \A relaxed \in { RelaxedPowers(s) } :
        /\ Len(fn_out.samples) = 512
        /\ fn_out.band_powers.alpha_power < relaxed.alpha_power
        /\ fn_out.band_powers.beta_power > relaxed.beta_power
        /\ fn_out.mental_state.stress_level > 60
        /\ Len(fn_out.recommendations) >= 2
        /\ fn_out.recommendations[1] = Rec("binaural_beats", 10, 10, "alpha_stress", 1)
        /\ fn_out.recommendations[2] = Rec("breathing", 0, 5, "breath_478", 1)

\* every draw of noise sequence s for a window lies within +-3.5
DrawsWithin35(s) == \A n \in 0..511 : -35 <= Noise(s, n) /\ Noise(s, n) <= 35
ModerateNoise == { s \in WideNoiseStreams : DrawsWithin35(s) }

\* C14: end to end, a 512-sample window generated under STRESSED has a lower
\* alpha mean and a higher beta mean than a window generated the same way
\* under RELAXED, classifies to stress > 60, and its recommendations start
\* with the binaural 10 Hz item followed by the breathing item.  The noise
\* is that of the generator, a Gaussian of standard deviation 0.5: every
\* sequence whose draws lie within +-3.5 (seven standard deviations), the
\* two windows drawing theirs independently.  ("floor" and "ramp" are not
\* draws of such a source; they serve the floor properties.)
C14_StressedScenario ==
    (StressedWindowDone /\ fn_in.noise \in ModerateNoise)
        => \A s \in ModerateNoise : StressedScenario(s)

\* C14 witness: a stressed window of alternating noise has gone through the
\* pipeline: stress level 65, and three recommendations, the stress set.
C14_Witness ==
    /\ StressedWindowDone /\ fn_in.noise = "alternating"
    /\ fn_out.mental_state.stress_level = 65
    /\ fn_out.recommendations = _stress_recommendations

\* C15: for every mode, the unrecognized one included, and every noise
\* value, each of the five band powers of a generated sample is at least
\* 0.1; hence so is every per-band mean of a non-empty list of samples.
C15_BandsAtLeastFloor ==
    /\ pc # "p_generate" =>
          \A i \in 1..Len(fn_out.samples) :
              /\ fn_out.samples[i].delta >= 1 /\ fn_out.samples[i].theta >= 1
              /\ fn_out.samples[i].alpha >= 1 /\ fn_out.samples[i].beta >= 1
              /\ fn_out.samples[i].gamma >= 1
    /\ (pc \notin {"p_generate", "p_aggregate"} /\ fn_out.samples # <<>>) =>
          \* a mean is its numerator over unit: mean >= 0.1 iff 10 * numerator >= unit
          /\ 10 * fn_out.band_powers.delta_power >= fn_out.band_powers.unit
          /\ 10 * fn_out.band_powers.theta_power >= fn_out.band_powers.unit
          /\ 10 * fn_out.band_powers.alpha_power >= fn_out.band_powers.unit
          /\ 10 * fn_out.band_powers.beta_power >= fn_out.band_powers.unit
          /\ 10 * fn_out.band_powers.gamma_power >= fn_out.band_powers.unit

\* C15 witness: under the unrecognized mode and the sweeping noise, the
\* list holds a sample floored at 0.1 in every band, one with base + noise
\* exactly 0 before the floor, and one left at its computed value 5 + 0.3.
C15_Witness ==
    /\ pc = "p_classify" /\ fn_in.mode = OtherMode /\ fn_in.noise = "ramp"
    /\ fn_in.duration_cs = 200
    /\ fn_out.samples[1].alpha = 1 /\ Noise("ramp", 0) = -256
    /\ fn_out.samples[207].alpha = 1 /\ Noise("ramp", 206) = -50
    /\ fn_out.samples[260].alpha = 53

\* C20: aggregating an empty window gives all five band powers 0 and
\* timestamp 0; aggregating a non-empty window gives the timestamp of the
\* window's last sample.
C20_EmptyAndLastTimestamp ==
    pc \notin {"p_generate", "p_aggregate"} =>
        IF Len(fn_out.samples) = 0
        THEN /\ fn_out.band_powers.delta_power = 0
             /\ fn_out.band_powers.theta_power = 0
             /\ fn_out.band_powers.alpha_power = 0
             /\ fn_out.band_powers.beta_power = 0
             /\ fn_out.band_powers.gamma_power = 0
             /\ fn_out.band_powers.timestamp = 0
        ELSE fn_out.band_powers.timestamp
                 = fn_in.t0 + samples_count(fn_in.duration_cs) - 1

\* C20 witness: a 2 s window drawn with the time counter at 7 has been
\* aggregated; its timestamp is that of sample 512, not of sample 1.
C20_Witness ==
    /\ pc = "p_classify" /\ fn_in.t0 = 7 /\ Len(fn_out.samples) = 512
    /\ fn_out.band_powers.timestamp = 518
    /\ fn_out.samples[1].timestamp = 7

\* a step that ends a stream: the iteration is exhausted, or the consumer
\* abandons it part-way
StreamEnds == pc \in {"s_created", "s_suspended"} /\ pc' = "s_idle"

\* C16: a stream that is consumed to its end has yielded exactly
\* int(sampling_rate x duration) samples; when a stream ends after k samples
\* were taken from it, exhausted or abandoned part-way, the time counter has
\* advanced by exactly k steps since the stream was created (no reset_time
\* in between); and the samples obtained since the last reset_time have
\* strictly increasing timestamps.
C16_CounterAdvancesPerSample ==
    /\ [](fn_out.ended = "exhausted"
            => fn_out.last.yielded = (256 * fn_out.last.duration_cs) \div 100)
    /\ [][ (StreamEnds /\ ~fn_in.was_reset)
             => sim_time' = fn_in.t_start + fn_in.yielded ]_vars
    /\ [](\A i \in 1..Len(fn_out.taken) : \A j \in 1..Len(fn_out.taken) :
             i < j => fn_out.taken[i].timestamp < fn_out.taken[j].timestamp)

\* a step of the request in flight, or the step that begins or answers one
RequestStep(op) ==
    /\ fn_vars' # fn_vars
    /\ \/ fn_in.op = op
       \/ fn_in'.op = op
       \/ fn_out' # fn_out /\ fn_out'.of = op
\* the step that answers a request
Replies(op) == fn_out'.served = fn_out.served + 1 /\ fn_out'.of = op

\* C17: the session summary answers "empty" exactly when the session
\* history is empty; when the history is not empty it answers a summary
\* whose count is the number of packets in the history and whose duration is
\* 2 s times the count; it never answers with averages for an empty history.
C17_EmptyExactlyWhenHistoryEmpty ==
    [][ Replies("stats") =>
          LET r == fn_out'.response
          IN  /\ (r.status = "empty") <=> (session_data = <<>>)
              /\ session_data # <<>> =>
                    /\ r.status = "summary"
                    /\ r.total_data_points = Len(session_data)
                    /\ r.duration_seconds = 2 * r.total_data_points ]_vars

\* C18: no step of the session export changes the session history, the
\* streaming flag, the mode or the buffer; a successful export answers with
\* the file name and the length of the history, a failed one with an error
\* and its message.
C18_ExportLeavesStateAlone ==
    [][ RequestStep("save") =>
          /\ UNCHANGED << session_data, is_streaming, current_mode, eeg_buffer >>
          /\ Replies("save") =>
                LET r == fn_out'.response
                IN  \/ /\ r.status = "success"
                       /\ "filename" \in DOMAIN r
                       /\ r.data_points = Len(session_data')
                    \/ /\ r.status = "error"
                       /\ "message" \in DOMAIN r ]_vars

\* an export of a history that holds packets has succeeded while streaming
C18_Witness ==
    /\ fn_out.of = "save"
    /\ fn_out.response.status = "success"
    /\ fn_out.response.data_points >= 1
    /\ Len(session_data) = fn_out.response.data_points
    /\ is_streaming

\* C19: the four values a status response carries are the values the
\* shared state held together in one state passed during the request.
C19_StatusIsPointInTime ==
    (fn_in = NoRequest /\ fn_out.of = "status") =>
        \E v \in observed :
            /\ v.streaming = fn_out.response.streaming
            /\ v.current_mode = fn_out.response.current_mode
            /\ v.buffer_size = fn_out.response.buffer_size
            /\ v.session_data_count = fn_out.response.session_data_count

\* C21: calculate_ratios returns the three fields beta_alpha_ratio,
\* theta_beta_ratio and total_power for every input; total_power is the sum
\* of the five band powers; when the sum is 0 both ratios are 0 and
\* total_power is reported as 0.
C21_RatiosAlwaysComplete ==
    pc = "ratios_done" =>
        /\ DOMAIN fn_out = { "beta_alpha_ratio", "theta_beta_ratio", "total_power" }
        /\ fn_out.total_power.num = TotalPower(fn_in)
        /\ fn_out.total_power.den = fn_in.unit
        /\ TotalPower(fn_in) = 0 =>
              fn_out.beta_alpha_ratio.num = 0 /\ fn_out.theta_beta_ratio.num = 0

\* the step is the handling of the command op
Handles(op) == cmds' = cmds + 1 /\ request'.op = op

\* C22: while streaming is off and the loop is at its check, the loop
\* generates no sample, leaves the buffer, the generator's time counter and
\* the session history as they are and emits nothing (the history changes
\* only by a clear_session command); the start and stop commands change
\* nothing but the streaming flag, so the samples buffered before a stop
\* are still in the buffer when streaming starts again.
C22_IdleLoopDoesNothing ==
    (pc = "check" /\ ~is_streaming) =>
        /\ ~ENABLED TickStart
        /\ ~is_streaming' =>
              /\ UNCHANGED << eeg_buffer, simulator, pc, locals, loop_history >>
              /\ session_data' # session_data => Handles("clear_session")
C22_StartStopFrame ==
    (Handles("start_streaming") \/ Handles("stop_streaming")) =>
        /\ is_streaming' = Handles("start_streaming")
        /\ UNCHANGED << eeg_buffer, session_data, session_id, current_mode,
                        simulator, pc, locals, loop_history, clear_history >>
C22_IdleAndStartStopFrame ==
    [][C22_IdleLoopDoesNothing /\ C22_StartStopFrame]_vars

\* C22 witness: streaming was stopped after three ticks; the loop is back
\* at its check and the 192 samples of those ticks are in the buffer.
C22_Witness ==
    /\ pc = "check" /\ ~is_streaming
    /\ request.op = "stop_streaming"
    /\ ticks = 3
    /\ ListLen(eeg_buffer) = 3 * samples_count(TickDuration)

\* the payload names one of the four modes
NamesValidMode(data) == "mode" \in DOMAIN data /\ data.mode \in ModeNames

\* C23: a change_mode command that names a valid mode changes only the
\* active mode: the buffer (each sample with the values it was generated
\* with), the streaming flag and the session history stay as they are.  All
\* samples a tick generates are generated under the one mode that is active
\* when the tick calls the generator, so a new mode applies from the next
\* generation call on.
C23_ValidModeChangeFrame ==
    (Handles("change_mode") /\ NamesValidMode(request'.data)) =>
        /\ current_mode' = mode_map[request'.data.mode]
        /\ Samples(rng, eeg_buffer') = Samples(rng, eeg_buffer)
        /\ UNCHANGED << eeg_buffer, session_data, session_id, is_streaming,
                        simulator, pc, locals, loop_history, clear_history >>
C23_TickUsesOneMode ==
    (pc = "generate" /\ pc' # "generate") =>
        LET n == samples_count(TickDuration)
            new == Samples(rng, LastN(eeg_buffer', n))
        IN  /\ ListLen(eeg_buffer') = ListLen(eeg_buffer) + n
            /\ \A i \in 1..n :
                  new[i] = generate_sample(current_mode, Noise(rng, rng_draws + i - 1),
                                           sim_time + i - 1)
            /\ tick_mode' = current_mode
C23_ModeChangeAffectsLaterSamplesOnly ==
    [][C23_ValidModeChangeFrame /\ C23_TickUsesOneMode]_vars

\* C23 witness: the mode was changed from relaxed to stressed while samples
\* generated under relaxed were buffered, and the tick after the change has
\* added samples generated under stressed behind them.
C23_Witness ==
    /\ request.op = "change_mode" /\ reply = "mode_changed"
    /\ current_mode = STRESSED
    /\ Len(eeg_buffer) >= 2
    /\ eeg_buffer[1].mode = RELAXED
    /\ eeg_buffer[Len(eeg_buffer)].mode = STRESSED

\* C24: in every reachable state, also after ticks that raised, the buffer
\* holds at most 512 samples, and whenever a window is analysed or the
\* buffer is trimmed it holds exactly 512, so that the analysed window is
\* the whole buffer and the trim discards only samples of that window.
C24_BufferIsOneWindow ==
    /\ ListLen(eeg_buffer) <= WindowSize
    /\ pc \in {"analyse", "trim"} => ListLen(eeg_buffer) = WindowSize

\* the values the session history can have held: it only ever holds
\* packets handed to delivery, in the order of delivery
Histories ==
    { SubSeq(delivered, i, j) : i \in 1..(Len(delivered) + 1), j \in 0..Len(delivered) }

\* C25: however a session summary request interleaves with clear_session
\* and with the loop's append, it completes without an error and answers
\* either "empty" or a summary whose count, duration and three averages are
\* all those of one and the same list of packets.
C25_SummaryFromOneSnapshot ==
    [][ Replies("stats") =>
          LET r == fn_out'.response
          IN  \/ r.status = "empty"
              \/ /\ r.status = "summary"
                 /\ \E h \in Histories :
                       /\ r.total_data_points = Len(h)
                       /\ r.duration_seconds = 2 * Len(h)
                       /\ \A i \in 1..3 :
                             fn_in.averages[i] =
                                 [ sum |-> SumField(h, Fields[i], Len(h)), n |-> Len(h) ]
      ]_vars

\* C26: the active mode changes only by a change_mode command that names
\* one of the four valid modes; a change_mode command whose payload carries
\* no mode name leaves the active mode as it is.
C26_ModeChangesOnlyByNamedMode ==
    [][ /\ current_mode' # current_mode =>
              Handles("change_mode") /\ NamesValidMode(request'.data)
        /\ (Handles("change_mode") /\ "mode" \notin DOMAIN request'.data) =>
              current_mode' = current_mode ]_vars

============================================================================
